---- MODULE Spec2Model ----
(***************************************************************************)
(* Model of image/tarexport/load.go: the import of an extracted image     *)
(* archive into the layer store (ls), the image store (is) and the         *)
(* reference store (rs).  One behaviour is one call of tarexporter.Load.   *)
(* The import is single-threaded; pc is the position of that one thread.   *)
(* Files of the extracted tree are read when the code opens them: the      *)
(* outcome of an open/read/parse is drawn with \E at that step.  A decoded *)
(* list (manifest.json, index.json, repositories) has its length drawn     *)
(* when it is decoded and each element when the loop over it first reads   *)
(* it: nothing observes an element earlier.                                *)
(***************************************************************************)
EXTENDS Integers, Sequences, FiniteSets, TLC

\* ---------------------------------------------------------------- bounds
MaxItems == 2        \* manifest items (or OCI index entries) of one archive
MaxLayers == 2       \* layers of one manifest item / DiffIDs of one config
MaxDirs == 3         \* top-level directories of a legacy tree
MaxRepos == 2        \* name/tag entries of a repositories file

DiffIDs == {"d1", "d2"}          \* content hashes of layer changesets
Unread == -1                     \* a json that has not been read yet
NoParent == 0                    \* the empty Parent field of a legacy json
OldIDs == 1..MaxDirs             \* directory names of a legacy tree, in ReadDir (sorted) order
ParentIDs == 0..(MaxDirs + 1)    \* Parent fields: none, a directory, or MaxDirs+1: no such directory
MaxDepth == MaxDirs + 2          \* legacyLoadImage recursion depth at which the goroutine stack is exhausted

SeqUpTo(S, n) == UNION {[1..k -> S] : k \in 0..n}
Last(s) == s[Len(s)]
Front(s) == SubSeq(s, 1, Len(s) - 1)
Range(s) == {s[k] : k \in 1..Len(s)}

\* ------------------------------------------------------------ references
\* A repo-tag string "repo:tag" is the pair <<repo, tag>>; "repo" alone is
\* <<repo, "">>, and a string reference.ParseNamed rejects is <<"", "">>.
TagNames == {"1", "2"}
Refs == {<<"r", t>> : t \in TagNames}          \* the references an import can bind
RepoTagStrings == {<<"r", "1">>, <<"r", "">>, <<"", "">>}   \* RepoTags strings of a manifest.json
RepoTagLists == {<< >>} \cup {<<t>> : t \in RepoTagStrings}    \* RepoTags of one manifest item

\* reference.ParseNamed: an error for a string that is no repository name
ParseNamedOK(s) == s[1] # ""
\* named.(reference.NamedTagged): the parsed reference carries a tag
IsNamedTagged(s) == s[2] # ""
\* reference.WithTag: an error for a string that is no tag
WithTagOK(tag) == tag \in TagNames
\* reference.WithTag(named, tag).String()
WithTag(named, tag) == <<named, tag>>

\* ------------------------------------------------------- rootfs and chains
\* image.RootFS.ChainID(): the digest chain over the DiffIDs of the rootfs.
\* The digest is collision-free, so a ChainID is written as the sequence of
\* DiffIDs it hashes; the empty rootfs has the empty ChainID.
ChainID(diffIDs) == diffIDs

None == [none |-> TRUE]

\* ---------------------------------------------------------------- state
VARIABLES
  pc,             \* position of the importing thread
  err,            \* the error Load returns ("nil" on success, "running" before it returns)
  adapters,       \* adapters Load has invoked, in order: "oci", "manifest", "legacy"
  ociLayoutFile,  \* outcome of resolving and opening <tmpDir>/oci-layout
  manifestFile,   \* outcome of resolving, opening and decoding <tmpDir>/manifest.json
  name, refs,     \* Load's arguments: target name and reference map
  index, xi,      \* ociLoad: index.Manifests and the loop position in it
  manifests, mi,  \* loadHelper: the manifest items and the loop position
  config,         \* loadHelper: img parsed from the current item's config blob (None outside an item)
  rootFS, li,     \* loadHelper: rootFS.DiffIDs and the layer loop position
  deferred,       \* loadHelper: stack of deferred layer.ReleaseAndLog calls
  imgID, ti,      \* loadHelper: the created image ID and the RepoTags loop position
  ls,             \* layer store: the ChainIDs of the layers it holds
  is,             \* image store: the image configurations created in it
  isParent,       \* image store: parent links set by SetParent, a set of <<id, parent>>
  rs,             \* reference store: reference -> image ID (None when unbound)
  rs0,            \* the reference store as it was when Load was called
  lsCalls,        \* log of layer-store calls
  isCalls,        \* log of image-store calls
  bindLog,        \* log of setLoadedTag calls
  out,            \* outStream: notices and status lines written
  opens,          \* the os.Open / ioutil.ReadFile calls made: file and whether its path came from safePath
  entries, di,    \* legacyLoad: ReadDir entries and the loop position
  reposFile,      \* legacyLoad: <tmpDir>/repositories: listed or not, then the outcome of opening it
  parentOf,       \* legacy tree: Parent field of each json read so far
  stack,          \* legacyLoadImage: call stack of frames
  legacyLoadedMap,\* legacyLoad: old ID -> new image ID
  repositories, ri \* legacyLoad: flattened repositories entries and loop position

loadVars == <<adapters, ociLayoutFile, manifestFile, name, refs, index, xi>>
helperVars == <<manifests, mi, config, rootFS, li, deferred, imgID, ti>>
storeVars == <<ls, is, isParent, rs, rs0>>
logVars == <<lsCalls, isCalls, bindLog, out>>
legacyVars == <<entries, di, reposFile, parentOf, stack, legacyLoadedMap, repositories, ri>>
vars == <<pc, err, loadVars, helperVars, storeVars, logVars, opens, legacyVars>>

\* ----------------------------------------------------- the stores at entry
\* What the stores hold before the import starts: one image of one layer,
\* bound to r:1; r:2 is unbound.
PreImage == [DiffIDs |-> <<"d1">>, History |-> << >>, V1 |-> 0]
PreLayers == {ChainID(PreImage.DiffIDs)}
PreRefs == [t \in Refs |-> IF t = <<"r", "1">> THEN PreImage ELSE None]

Init ==
  /\ pc = "Load"
  /\ err = "running"
  /\ adapters = << >>
  /\ ociLayoutFile = "unopened"
  /\ manifestFile = "unopened"
  /\ name = "" /\ refs = {}
  /\ index = << >> /\ xi = 1
  /\ manifests = << >> /\ mi = 1
  /\ config = None
  /\ rootFS = << >> /\ li = 1
  /\ deferred = << >>
  /\ imgID = None /\ ti = 1
  /\ ls = PreLayers
  /\ is = {PreImage}
  /\ isParent = {}
  /\ rs = PreRefs
  /\ rs0 = rs
  /\ lsCalls = << >> /\ isCalls = << >> /\ bindLog = << >> /\ out = << >>
  /\ opens = {}
  /\ entries = << >> /\ di = 1
  /\ reposFile = "unopened"
  /\ parentOf = [o \in ParentIDs |-> Unread]
  /\ stack = << >>
  /\ legacyLoadedMap = [o \in ParentIDs |-> None]
  /\ repositories = << >> /\ ri = 1

\* (*os.File)(nil).Close(): Close on a nil *os.File returns os.ErrInvalid
NilFileClose == "ErrInvalid"

\* os.Open or ioutil.ReadFile is called on a file of the extracted tree;
\* guarded: the path it is given is the result of safePath (lines 407-409),
\* which resolves it, symlinks included, inside the extraction root.
Opened(file, guarded) == opens' = opens \cup {[file |-> file, guarded |-> guarded]}

\* The function returns e; no deferred layer release is pending.
Return(e) == /\ pc' = "done" /\ err' = e

\* ------------------------------------------------------------- mutations
\* Mutations of the code, used to show that each property depends on it.
DeferReleaseForgotten(stack_, hd) == stack_
DiffIDNeverMismatch(expected, actual) == FALSE
LayersLengthOnlyFewer(expected, actual) == expected < actual
AlwaysLoadLayer(found) == TRUE
LegacyOnAnyOpenError(o) == IF o = "ok" THEN "decode" ELSE "legacyLoad"
NeverAlreadyLoaded(map, oldID) == FALSE
NoticeWheneverBound(store, ref, id) == store[ref] # None
OnlyMissingTarget(n, rf) == IF n = "" /\ Cardinality(rf) = 0 THEN "noNameMapping" ELSE "nil"
OciTagIgnoresAnnotation(md, n, rf) == [err |-> "nil", tag |-> <<"r", "1">>]
LoadLayerOnCandidate(rootFS_, id) == ChainID(Append(rootFS_, id))
ParentNeverLoaded(map, parent) == FALSE
ParentAssumedLoaded(map, parent) == TRUE

\* ------------------------------------------------------------------ Load
\* Lines 50-54: the OCI adapter is taken when os.Open returned no error.
AfterOciLayout(o) == IF o = "ok" THEN "ociLoad" ELSE "LoadManifest"

\* Lines 61-75: after os.Open of the manifest: decode it, fall back to the
\* legacy adapter when the file does not exist, else return Close()'s error.
AfterManifest(o) ==
  CASE o = "ok" -> "decode"
    [] o = "absent" -> "legacyLoad"
    [] OTHER -> "close"

ManifestItems ==
  [Config : {"config.json"},
   Layers : SeqUpTo({"layer.tar"}, MaxLayers),
   RepoTags : RepoTagLists]
\* An element of a decoded list that no loop has read yet.
ItemPending == [Config |-> "", Layers |-> << >>, RepoTags |-> << >>]
ItemsAt(list, k) == IF list[k] = ItemPending THEN ManifestItems ELSE {list[k]}

\* Load, lines 26-54: workspace, extraction, and the oci-layout probe.
LoadStart ==
  /\ pc = "Load"
  /\ \E o \in {"tempDirErr", "untarErr", "unsafe", "ok", "absent", "ioerr"} :
       IF o \in {"tempDirErr", "untarErr"}
         THEN /\ Return(o) /\ UNCHANGED <<loadVars, opens>>
         ELSE /\ ociLayoutFile' = o
              /\ IF o = "unsafe"
                   THEN /\ Return("pathErr") /\ UNCHANGED <<adapters, opens>>
                   ELSE /\ pc' = AfterOciLayout(o)
                        /\ Opened("oci-layout", TRUE)
                        /\ adapters' = IF pc' = "ociLoad" THEN Append(adapters, "oci") ELSE adapters
                        /\ UNCHANGED err
              /\ UNCHANGED <<manifestFile, name, refs, index, xi>>
  /\ UNCHANGED <<helperVars, storeVars, logVars, legacyVars>>

\* Load, lines 56-75: the manifest.json probe, decode and dispatch.
LoadManifest ==
  /\ pc = "LoadManifest"
  /\ \E o \in {"unsafe", "ok", "absent", "ioerr"} :
       IF o = "unsafe"
         THEN /\ manifestFile' = o /\ Return("pathErr") /\ UNCHANGED <<adapters, manifests, opens>>
         ELSE /\ Opened("manifest.json", TRUE)
              /\ CASE AfterManifest(o) = "close" ->
                        /\ manifestFile' = o /\ Return(NilFileClose) /\ UNCHANGED <<adapters, manifests>>
                   [] AfterManifest(o) = "legacyLoad" ->
                        /\ manifestFile' = o
                        /\ pc' = "legacyLoad"
                        /\ adapters' = Append(adapters, "legacy")
                        /\ UNCHANGED <<err, manifests>>
                   [] OTHER ->
                        \/ /\ manifestFile' = "undecodable" /\ Return("decodeErr")
                           /\ UNCHANGED <<adapters, manifests>>
                        \/ /\ manifestFile' = o
                           /\ \E n \in 0..MaxItems : manifests' = [k \in 1..n |-> ItemPending]
                           /\ pc' = "lhItem"
                           /\ adapters' = Append(adapters, "manifest")
                           /\ UNCHANGED err
  /\ UNCHANGED <<ociLayoutFile, name, refs, index, xi>>
  /\ UNCHANGED <<mi, config, rootFS, li, deferred, imgID, ti>>
  /\ UNCHANGED <<storeVars, logVars, legacyVars>>

\* --------------------------------------------------------------- ociLoad
RefMaps == {{}, {<<"1", <<"r", "1">>>>}}
IndexEntries ==
  [MediaType : {"manifest"}, RefName : TagNames \cup {"none", "!"}]
    \cup [MediaType : {"other"}, RefName : {"none"}]
IndexPending == [MediaType |-> "", RefName |-> ""]

\* Lines 184-190: both a name and refs, or neither, is a usage error.
OciUsageError(n, rf) ==
  IF n # "" /\ Cardinality(rf) # 0 THEN "eitherNameAndRefs"
  ELSE IF n = "" /\ Cardinality(rf) = 0 THEN "noNameMapping"
  ELSE "nil"

\* getRefs(refs): the references of the map, keyed by ref name; an error
\* when a value is no reference.
GetRefsOK(rf) == \A p \in rf : ParseNamedOK(p[2])

\* ociLoad, lines 183-201: argument check, then index.json is opened and decoded.
OciLoadStart ==
  /\ pc = "ociLoad"
  /\ \E n \in {"", "r"}, rf \in RefMaps :
       /\ name' = n /\ refs' = rf
       /\ IF OciUsageError(n, rf) # "nil"
            THEN /\ Return(OciUsageError(n, rf)) /\ UNCHANGED <<index, opens>>
            ELSE /\ Opened("index.json", FALSE)      \* line 193: filepath.Join(tmpDir, "index.json")
                 /\ \/ /\ \E e \in {"indexOpenErr", "indexDecodeErr"} : Return(e)
                       /\ UNCHANGED index
                    \/ /\ \E len \in 0..MaxItems : index' = [k \in 1..len |-> IndexPending]
                       /\ pc' = "ociEntry"
                       /\ UNCHANGED err
  /\ UNCHANGED <<adapters, ociLayoutFile, manifestFile, xi>>
  /\ UNCHANGED <<helperVars, storeVars, logVars, legacyVars>>

\* Lines 222-247: the repo tag of an index entry, or the error.
OciTag(md, n, rf) ==
  IF md.RefName = "none" THEN [err |-> "noRefName", tag |-> <<"", "">>]
  ELSE IF n # ""
    THEN IF ~WithTagOK(md.RefName)
           THEN [err |-> "invalidTag", tag |-> <<"", "">>]
           ELSE [err |-> "nil", tag |-> WithTag(n, md.RefName)]
    ELSE IF ~GetRefsOK(rf)
           THEN [err |-> "getRefsErr", tag |-> <<"", "">>]
           ELSE IF \E p \in rf : p[1] = md.RefName
                  THEN [err |-> "nil", tag |-> (CHOOSE p \in rf : p[1] = md.RefName)[2]]
                  ELSE [err |-> "noNaming", tag |-> <<"", "">>]

\* ociLoad, lines 202-258: one index entry per step; after the last entry
\* the manifest items are handed to loadHelper.
OciEntry ==
  /\ pc = "ociEntry"
  /\ IF xi > Len(index)
       THEN /\ pc' = "lhItem" /\ UNCHANGED <<err, xi, manifests, index, opens>>
       ELSE \E md \in IndexEntries :
            /\ index' = [index EXCEPT ![xi] = md]
            /\ IF md.MediaType # "manifest"
                 THEN /\ xi' = xi + 1 /\ UNCHANGED <<pc, err, manifests, opens>>
                 ELSE /\ Opened("manifest blob", FALSE)   \* lines 206-208: Join(tmpDir, "blobs", alg, hex) of md.Digest
                      /\ \/ /\ \E e \in {"blobOpenErr", "blobDecodeErr"} : Return(e)
                            /\ UNCHANGED <<xi, manifests>>
                         \/ \E layers \in SeqUpTo({"layer.tar"}, MaxLayers) :
                              LET t == OciTag(md, name, refs) IN
                              IF t.err # "nil"
                                THEN /\ Return(t.err) /\ UNCHANGED <<xi, manifests>>
                                ELSE /\ manifests' = Append(manifests,
                                           [Config |-> "config.json", Layers |-> layers,
                                            RepoTags |-> <<t.tag>>])
                                     /\ xi' = xi + 1
                                     /\ UNCHANGED <<pc, err>>
  /\ UNCHANGED <<adapters, ociLayoutFile, manifestFile, name, refs>>
  /\ UNCHANGED <<mi, config, rootFS, li, deferred, imgID, ti>>
  /\ UNCHANGED <<storeVars, logVars, legacyVars>>

\* ------------------------------------------------------------ layer store
\* ls.Get(chainID): the layer is found iff the store holds it.
LsGetFound(store, c) == c \in store
\* ls.Register(stream, parent): only on top of a layer the store holds.
LsRegisterOK(store, parent) == parent = << >> \/ parent \in store
\* The ChainID of the layer Register creates from content with DiffID d.
LsRegisterChain(parent, d) == Append(parent, d)

\* A layer handle: h is the index in lsCalls of the call that returned it.
Handle(h, c) == [h |-> h, chain |-> c, diffID |-> Last(c)]
NoHandle == [h |-> 0, chain |-> << >>, diffID |-> ""]

LsCall(op, who, cand, arg, ok, hd) ==
  [op |-> op, who |-> who, cand |-> cand, arg |-> arg, ok |-> ok,
   h |-> hd.h, chain |-> hd.chain, diffID |-> hd.diffID]

\* loadLayer, lines 145-170: the errors it can return before or from
\* Register, or the DiffID of the layer it registered.  With a progress
\* output the file is also stat'ed.
LoadLayerResults(progress, store, parent) ==
  [err : {"openErr", "decompressErr", "registerErr"}
           \cup (IF progress THEN {"statErr"} ELSE {}),
   diffID : {""}]
    \cup (IF LsRegisterOK(store, parent)
           THEN [err : {"nil"}, diffID : DiffIDs] ELSE {})

\* Load, line 33: the progress output handed down is never nil.
ProgressOutput == TRUE

\* loadLayer reaches ls.Register unless the file could not be read.
ReachesRegister(res) == res.err \in {"nil", "registerErr"}

\* ------------------------------------------------------------ image store
\* The image ID is the digest of the configuration; the digest is
\* collision-free, so the ID is written as the configuration it digests.
ImageID(cfg) == cfg

IsCall(op, who, id, parent, ok) ==
  [op |-> op, who |-> who, id |-> id, parent |-> parent, ok |-> ok]

\* ---------------------------------------------------------- setLoadedTag
\* Line 173: the notice is written when the reference resolves to another ID.
RenameNotice(store, ref, id) == store[ref] # None /\ store[ref] # id

\* setLoadedTag, lines 172-181, followed by the caller's status line
\* (lines 135-138, 311-312): the caller drops setLoadedTag's error.
SetLoadedTag(who, ref, id, addOK) ==
  /\ out' = out
        \o (IF RenameNotice(rs, ref, id)
              THEN <<[kind |-> "notice", ref |-> ref, id |-> rs[ref]]>> ELSE << >>)
        \o <<[kind |-> "loaded", ref |-> ref, id |-> id]>>
  /\ rs' = IF addOK THEN [rs EXCEPT ![ref] = id] ELSE rs
  /\ bindLog' = Append(bindLog, [who |-> who, ref |-> ref, id |-> id, ok |-> addOK])

\* ------------------------------------------------------------ loadHelper
\* Line 96: the manifest's layer count against the config's DiffID count.
LayersLengthMismatch(expected, actual) == expected # actual
\* Line 108: the layer is loaded from the archive when Get returned an error.
NeedLoadLayer(found) == ~found
\* Line 114: the release of the handle is deferred to loadHelper's return.
DeferRelease(stack_, hd) == <<hd>> \o stack_
\* Lines 109, 166, 169: loadLayer is handed rootFS, the rootfs before id is
\* appended, and registers the layer on that rootfs's ChainID.
LoadLayerParent(rootFS_, id) == ChainID(rootFS_)
\* Line 115: the handle's DiffID against the declared one.
DiffIDMismatch(expected, actual) == expected # actual

\* loadHelper returns e: its deferred releases run first.
LhReturn(e) == /\ pc' = "lhDefer" /\ err' = e

\* The configs an archive can hold: a rootfs of up to MaxLayers distinct DiffIDs.
RootFSs == {r \in SeqUpTo(DiffIDs, MaxLayers) : \A i, j \in 1..Len(r) : i # j => r[i] # r[j]}
Configs == [DiffIDs : RootFSs, History : {<< >>}, V1 : {0}]

\* loadHelper, lines 79-98: the next manifest item: its config is resolved,
\* read and parsed, and its layer count checked.  A config without a
\* rootfs makes line 93 dereference nil: the panic unwinds through the
\* deferred releases.
LhItem ==
  /\ pc = "lhItem"
  /\ IF mi > Len(manifests)
       THEN /\ LhReturn("nil") /\ UNCHANGED <<manifests, config, rootFS, li, opens>>
       ELSE \/ /\ LhReturn("pathErr")
               /\ UNCHANGED <<manifests, config, rootFS, li, opens>>
            \/ /\ \E e \in {"readErr", "invalidJSON", "panic"} : LhReturn(e)
               /\ Opened("config", TRUE)
               /\ UNCHANGED <<manifests, config, rootFS, li>>
            \/ \E m \in ItemsAt(manifests, mi), img \in Configs :
                 /\ Opened("config", TRUE)
                 /\ manifests' = [manifests EXCEPT ![mi] = m]
                 /\ config' = img
                 /\ rootFS' = << >>
                 /\ li' = 1
                 /\ IF LayersLengthMismatch(Len(m.Layers), Len(img.DiffIDs))
                      THEN LhReturn("layersLengthMismatch")
                      ELSE pc' = "lhLayer" /\ UNCHANGED err
  /\ UNCHANGED <<mi, deferred, imgID, ti>>
  /\ UNCHANGED <<loadVars, storeVars, logVars, legacyVars>>

\* loadHelper, lines 100-119: one layer of the item: Get by the candidate
\* ChainID, else loadLayer on top of rootFS; the release is deferred; the
\* DiffID is checked; rootFS grows.
LhLayer ==
  /\ pc = "lhLayer"
  /\ IF li > Len(config.DiffIDs)
       THEN /\ pc' = "lhCreate"
            /\ UNCHANGED <<err, rootFS, li, deferred, ls, lsCalls, opens>>
       ELSE LET diffID == config.DiffIDs[li]
                layerPath == manifests[mi].Layers[li]
                cand == ChainID(Append(rootFS, diffID))
                found == LsGetFound(ls, cand)
                n == Len(lsCalls)
                get == LsCall("Get", mi, cand, cand, found,
                              IF found THEN Handle(n + 1, cand) ELSE NoHandle)
            IN
            \/ /\ layerPath \in {"layer.tar"}     \* safePath(tmpDir, m.Layers[i]) fails
               /\ LhReturn("pathErr")
               /\ UNCHANGED <<rootFS, li, deferred, ls, lsCalls, opens>>
            \/ IF ~NeedLoadLayer(found)
                 THEN /\ lsCalls' = Append(lsCalls, get)
                      /\ UNCHANGED opens
                      /\ deferred' = DeferRelease(deferred, Handle(n + 1, cand))
                      /\ ls' = ls
                      /\ IF DiffIDMismatch(diffID, Last(cand))
                           THEN LhReturn("invalidDiffID") /\ UNCHANGED <<rootFS, li>>
                           ELSE /\ rootFS' = Append(rootFS, diffID)
                                /\ li' = li + 1
                                /\ UNCHANGED <<pc, err>>
                 ELSE \E res \in LoadLayerResults(ProgressOutput, ls, LoadLayerParent(rootFS, diffID)) :
                      LET chain == LsRegisterChain(LoadLayerParent(rootFS, diffID), res.diffID)
                          hd == IF res.err = "nil" THEN Handle(n + 2, chain) ELSE NoHandle
                          reg == LsCall("Register", mi, cand, LoadLayerParent(rootFS, diffID),
                                        res.err = "nil", hd)
                      IN
                      /\ Opened("layer", TRUE)
                      /\ lsCalls' = lsCalls \o <<get>>
                                       \o (IF ReachesRegister(res) THEN <<reg>> ELSE << >>)
                      /\ IF res.err # "nil"
                           THEN /\ LhReturn(res.err)
                                /\ UNCHANGED <<rootFS, li, deferred, ls>>
                           ELSE /\ ls' = ls \cup {chain}
                                /\ deferred' = DeferRelease(deferred, hd)
                                /\ IF DiffIDMismatch(diffID, hd.diffID)
                                     THEN LhReturn("invalidDiffID") /\ UNCHANGED <<rootFS, li>>
                                     ELSE /\ rootFS' = Append(rootFS, diffID)
                                          /\ li' = li + 1
                                          /\ UNCHANGED <<pc, err>>
  /\ UNCHANGED <<manifests, mi, config, imgID, ti>>
  /\ UNCHANGED <<loadVars, is, isParent, rs, rs0, isCalls, bindLog, out, legacyVars>>

\* loadHelper, lines 121-124: the image is created from the config.
LhCreate ==
  /\ pc = "lhCreate"
  /\ \E ok \in BOOLEAN :
       /\ isCalls' = Append(isCalls, IsCall("Create", mi, ImageID(config), None, ok))
       /\ IF ok
            THEN /\ is' = is \cup {config}
                 /\ imgID' = ImageID(config)
                 /\ ti' = 1
                 /\ pc' = "lhTag"
                 /\ UNCHANGED err
            ELSE /\ LhReturn("createErr")
                 /\ UNCHANGED <<is, imgID, ti>>
  /\ UNCHANGED <<manifests, mi, config, rootFS, li, deferred>>
  /\ UNCHANGED <<loadVars, ls, isParent, rs, rs0, lsCalls, bindLog, out, opens, legacyVars>>

\* loadHelper, lines 126-140: one repo tag of the item is parsed and bound;
\* after the last one the loop moves to the next item.
LhTag ==
  /\ pc = "lhTag"
  /\ IF ti > Len(manifests[mi].RepoTags)
       THEN /\ mi' = mi + 1
            /\ config' = None
            /\ pc' = "lhItem"
            /\ UNCHANGED <<err, ti, rs, bindLog, out>>
       ELSE LET repoTag == manifests[mi].RepoTags[ti] IN
            IF ~ParseNamedOK(repoTag)
              THEN /\ LhReturn("parseErr") /\ UNCHANGED <<mi, config, ti, rs, bindLog, out>>
            ELSE IF ~IsNamedTagged(repoTag)
              THEN /\ LhReturn("invalidTag") /\ UNCHANGED <<mi, config, ti, rs, bindLog, out>>
            ELSE \E addOK \in BOOLEAN :
                   /\ SetLoadedTag(mi, repoTag, imgID, addOK)
                   /\ ti' = ti + 1
                   /\ UNCHANGED <<pc, err, mi, config>>
  /\ UNCHANGED <<manifests, rootFS, li, deferred, imgID>>
  /\ UNCHANGED <<loadVars, ls, is, isParent, rs0, lsCalls, isCalls, opens, legacyVars>>

\* loadHelper's return: the deferred layer.ReleaseAndLog calls run, last
\* deferred first; ReleaseAndLog logs a Release error and goes on.
LhDefer ==
  /\ pc = "lhDefer"
  /\ lsCalls' = lsCalls \o
       [k \in 1..Len(deferred) |->
          LsCall("Release", mi, << >>, deferred[k].chain, TRUE, deferred[k])]
  /\ deferred' = << >>
  /\ pc' = "done"
  /\ UNCHANGED <<err, manifests, mi, config, rootFS, li, imgID, ti>>
  /\ UNCHANGED <<loadVars, ls, is, isParent, rs, rs0, isCalls, bindLog, out, opens, legacyVars>>

\* ------------------------------------------------------------ legacyLoad
Frame(oldID) ==
  [oldID |-> oldID, Parent |-> NoParent, parentID |-> None, rootFS |-> << >>,
   history |-> << >>, newLayer |-> NoHandle, imgID |-> None]

Top == Last(stack)
SetTop(f) == [stack EXCEPT ![Len(stack)] = f]
DirNames == {entries[k].Name : k \in {j \in 1..Len(entries) : entries[j].IsDir}}

\* ReadDir's listing, sorted by name: the image directories (hex IDs), then
\* the repositories file when the tree has one.
Listing(nd, hasFile) ==
  [k \in 1..(nd + (IF hasFile THEN 1 ELSE 0)) |->
     IF k > nd THEN [Name |-> 0, IsDir |-> FALSE] ELSE [Name |-> k, IsDir |-> TRUE]]

\* legacyLoad, lines 261-268: the top-level entries of the tree are listed.
LegacyLoadStart ==
  /\ pc = "legacyLoad"
  /\ \/ /\ Return("readDirErr") /\ UNCHANGED <<entries, reposFile>>
     \/ \E nd \in 0..MaxDirs, hasFile \in BOOLEAN :
          /\ entries' = Listing(nd, hasFile)
          /\ reposFile' = IF hasFile THEN "present" ELSE "absent"
          /\ pc' = "llDir"
          /\ UNCHANGED err
  /\ UNCHANGED <<di, parentOf, stack, legacyLoadedMap, repositories, ri>>
  /\ UNCHANGED <<loadVars, helperVars, storeVars, logVars, opens>>

\* legacyLoad, lines 270-276: every directory entry is loaded as an image.
LlDir ==
  /\ pc = "llDir"
  /\ IF di > Len(entries)
       THEN /\ pc' = "llRepos" /\ UNCHANGED <<di, stack>>
       ELSE IF entries[di].IsDir
         THEN /\ stack' = <<Frame(entries[di].Name)>>
              /\ pc' = "lliEntry"
              /\ UNCHANGED di
         ELSE /\ di' = di + 1 /\ UNCHANGED <<pc, stack>>
  /\ UNCHANGED <<err, entries, reposFile, parentOf, legacyLoadedMap, repositories, ri>>
  /\ UNCHANGED <<loadVars, helperVars, storeVars, logVars, opens>>

\* ------------------------------------------------------- legacyLoadImage
\* Line 320: an old ID already in the map is not loaded again.
AlreadyLoaded(map, oldID) == map[oldID] # None
\* Line 342: the parent's new ID is taken from the map once it is there.
ParentLoaded(map, parent) == map[parent] # None

\* legacyLoadImage returns nil: back in the caller's parent loop (line 342),
\* or in legacyLoad's directory loop (line 272).
LliReturnNil ==
  /\ stack' = Front(stack)
  /\ IF Len(stack) = 1
       THEN /\ di' = di + 1 /\ pc' = "llDir"
       ELSE /\ pc' = "lliParent" /\ UNCHANGED di
  /\ UNCHANGED err

\* legacyLoadImage returns an error: every caller returns it at once
\* (lines 343-345, 272-274), and so does Load.
LliReturnErr(e) == /\ Return(e) /\ UNCHANGED <<stack, di>>

\* legacyLoadImage, lines 319-336: the memo check, then the json is read
\* and its Parent field taken.
LliEntry ==
  /\ pc = "lliEntry"
  /\ IF AlreadyLoaded(legacyLoadedMap, Top.oldID)
       THEN /\ LliReturnNil /\ UNCHANGED <<parentOf, opens>>
       ELSE \/ /\ LliReturnErr("pathErr")
               /\ UNCHANGED <<parentOf, opens>>
            \/ /\ \E e \in {"readErr", "unmarshalErr"} : LliReturnErr(e)
               /\ Opened("json", TRUE)
               /\ UNCHANGED parentOf
            \/ /\ Top.oldID \in DirNames
               /\ Opened("json", TRUE)
               /\ \E p \in ParentIDs :
                    /\ parentOf[Top.oldID] \in {Unread, p}
                    /\ parentOf' = [parentOf EXCEPT ![Top.oldID] = p]
                    /\ stack' = SetTop([Top EXCEPT !.Parent = p])
               /\ pc' = "lliParent"
               /\ UNCHANGED <<err, di>>
  /\ UNCHANGED <<entries, reposFile, legacyLoadedMap, repositories, ri>>
  /\ UNCHANGED <<loadVars, helperVars, storeVars, logVars>>

\* legacyLoadImage, lines 338-350: the parent loop: the parent's new ID is
\* looked up in the map, and the parent loaded by a recursive call while it
\* is not there.  The recursion has no bound but the goroutine stack.
LliParent ==
  /\ pc = "lliParent"
  /\ IF Top.Parent = NoParent
       THEN /\ pc' = "lliLayer" /\ UNCHANGED <<err, stack>>
       ELSE IF ParentLoaded(legacyLoadedMap, Top.Parent)
         THEN /\ stack' = SetTop([Top EXCEPT !.parentID = legacyLoadedMap[Top.Parent]])
              /\ pc' = "lliLayer"
              /\ UNCHANGED err
         ELSE IF Len(stack) >= MaxDepth
           THEN /\ Return("stackOverflow") /\ UNCHANGED stack
           ELSE /\ stack' = Append(stack, Frame(Top.Parent))
                /\ pc' = "lliEntry"
                /\ UNCHANGED err
  /\ UNCHANGED <<entries, di, reposFile, parentOf, legacyLoadedMap, repositories, ri>>
  /\ UNCHANGED <<loadVars, helperVars, storeVars, logVars, opens>>

\* The DiffID of the layer.tar in directory o of the tree.
LayerTarDiffID(o) == IF o % 2 = 1 THEN "d1" ELSE "d2"

\* legacyLoadImage, lines 352-374: the parent image's rootfs and history
\* are fetched, and the layer is registered on top of that rootfs.
LliLayer ==
  /\ pc = "lliLayer"
  /\ LET hasParent == Top.parentID # None
         getOK == IsCall("Get", Top.oldID, Top.parentID, None, TRUE)
         getErr == IsCall("Get", Top.oldID, Top.parentID, None, FALSE)
         base == IF hasParent THEN Top.parentID.DiffIDs ELSE << >>
         hist == IF hasParent THEN Top.parentID.History ELSE << >>
         n == Len(lsCalls)
     IN
     \/ /\ hasParent
        /\ isCalls' = Append(isCalls, getErr)
        /\ LliReturnErr("getErr")
        /\ UNCHANGED <<ls, lsCalls, opens>>
     \/ /\ hasParent => Top.parentID \in is
        /\ isCalls' = IF hasParent THEN Append(isCalls, getOK) ELSE isCalls
        /\ \/ /\ LliReturnErr("pathErr") /\ UNCHANGED <<ls, lsCalls, opens>>
           \/ \E res \in LoadLayerResults(ProgressOutput, ls, LoadLayerParent(base, Top.oldID)) :
                LET chain == LsRegisterChain(LoadLayerParent(base, Top.oldID), res.diffID)
                    hd == IF res.err = "nil" THEN Handle(n + 1, chain) ELSE NoHandle
                    reg == LsCall("Register", Top.oldID, << >>, LoadLayerParent(base, Top.oldID),
                                  res.err = "nil", hd)
                IN
                /\ res.err = "nil" => res.diffID = LayerTarDiffID(Top.oldID)
                /\ Opened("layer.tar", TRUE)
                /\ lsCalls' = IF ReachesRegister(res) THEN Append(lsCalls, reg) ELSE lsCalls
                /\ IF res.err # "nil"
                     THEN /\ LliReturnErr(res.err) /\ UNCHANGED ls
                     ELSE /\ ls' = ls \cup {chain}
                          /\ stack' = SetTop([Top EXCEPT !.newLayer = hd,
                                                  !.rootFS = Append(base, hd.diffID),
                                                  !.history = hist])
                          /\ pc' = "lliConfig"
                          /\ UNCHANGED <<err, di>>
  /\ UNCHANGED <<entries, reposFile, parentOf, legacyLoadedMap, repositories, ri>>
  /\ UNCHANGED <<loadVars, helperVars, is, isParent, rs, rs0, bindLog, out>>

\* legacyLoadImage, lines 376-389: the json is migrated to a history entry
\* and a config, and the image is created.  Each error returns at once.
LliConfig ==
  /\ pc = "lliConfig"
  /\ LET cfg == [DiffIDs |-> Top.rootFS, History |-> Append(Top.history, Top.oldID),
                 V1 |-> Top.oldID]
     IN
     \/ /\ \E e \in {"historyErr", "makeConfigErr"} : LliReturnErr(e)
        /\ UNCHANGED <<is, isCalls>>
     \/ /\ isCalls' = Append(isCalls, IsCall("Create", Top.oldID, ImageID(cfg), None, FALSE))
        /\ LliReturnErr("createErr")
        /\ UNCHANGED is
     \/ /\ isCalls' = Append(isCalls, IsCall("Create", Top.oldID, ImageID(cfg), None, TRUE))
        /\ is' = is \cup {cfg}
        /\ stack' = SetTop([Top EXCEPT !.imgID = ImageID(cfg)])
        /\ pc' = "lliRelease"
        /\ UNCHANGED <<err, di>>
  /\ UNCHANGED <<entries, reposFile, parentOf, legacyLoadedMap, repositories, ri>>
  /\ UNCHANGED <<loadVars, helperVars, ls, isParent, rs, rs0, lsCalls, bindLog, out, opens>>

\* legacyLoadImage, lines 391-395: the layer handle is released.
LliRelease ==
  /\ pc = "lliRelease"
  /\ \E ok \in BOOLEAN :
       /\ lsCalls' = Append(lsCalls,
             LsCall("Release", Top.oldID, << >>, Top.newLayer.chain, ok, Top.newLayer))
       /\ IF ok
            THEN /\ pc' = "lliFinish" /\ UNCHANGED <<err, stack, di>>
            ELSE LliReturnErr("releaseErr")
  /\ UNCHANGED <<entries, reposFile, parentOf, legacyLoadedMap, repositories, ri>>
  /\ UNCHANGED <<loadVars, helperVars, storeVars, isCalls, bindLog, out, opens>>

\* legacyLoadImage, lines 397-405: the parent link is set and the old ID
\* entered in the map.
LliFinish ==
  /\ pc = "lliFinish"
  /\ LET hasParent == Top.parentID # None IN
     \/ /\ hasParent
        /\ isCalls' = Append(isCalls, IsCall("SetParent", Top.oldID, Top.imgID, Top.parentID, FALSE))
        /\ LliReturnErr("setParentErr")
        /\ UNCHANGED <<isParent, legacyLoadedMap>>
     \/ /\ isCalls' = IF hasParent
                         THEN Append(isCalls, IsCall("SetParent", Top.oldID, Top.imgID, Top.parentID, TRUE))
                         ELSE isCalls
        /\ isParent' = IF hasParent THEN isParent \cup {<<Top.imgID, Top.parentID>>} ELSE isParent
        /\ legacyLoadedMap' = [legacyLoadedMap EXCEPT ![Top.oldID] = Top.imgID]
        /\ LliReturnNil
  /\ UNCHANGED <<entries, reposFile, parentOf, repositories, ri>>
  /\ UNCHANGED <<loadVars, helperVars, ls, is, rs, rs0, lsCalls, bindLog, out, opens>>

\* ------------------------------------------------- legacyLoad: repositories
RepoEntries ==
  [name : {"r"}, tag : TagNames, oldID : ParentIDs \ {NoParent}]
    \cup {[name |-> "", tag |-> "1", oldID |-> 1], [name |-> "r", tag |-> "!", oldID |-> 1]}
RepoPending == [name |-> "?", tag |-> "", oldID |-> 0]
\* reference.WithName: an error for a string that is no repository name
WithNameOK(n) == n # ""
\* The entries the range loops can visit at position k of the decoded map:
\* a map holds each name/tag pair once.
RepoEntriesAt(list, k) ==
  {e \in RepoEntries : \A j \in 1..(k - 1) : <<list[j].name, list[j].tag>> # <<e.name, e.tag>>}

\* legacyLoad, lines 278-295: the repositories file is resolved, opened and
\* decoded; when it does not exist the function returns Close() of the nil
\* file.
LlRepos ==
  /\ pc = "llRepos"
  /\ IF reposFile = "absent"
       THEN /\ Return(NilFileClose) /\ Opened("repositories", TRUE)
            /\ UNCHANGED <<reposFile, repositories>>
       ELSE \/ /\ reposFile' = "unsafe" /\ Return("pathErr") /\ UNCHANGED <<repositories, opens>>
            \/ /\ reposFile' = "ioerr" /\ Return("openErr") /\ Opened("repositories", TRUE)
               /\ UNCHANGED repositories
            \/ /\ reposFile' = "undecodable" /\ Return("decodeErr") /\ Opened("repositories", TRUE)
               /\ UNCHANGED repositories
            \/ /\ reposFile' = "ok"
               /\ Opened("repositories", TRUE)
               /\ \E n \in 0..MaxRepos : repositories' = [k \in 1..n |-> RepoPending]
               /\ pc' = "llTag"
               /\ UNCHANGED err
  /\ UNCHANGED <<entries, di, parentOf, stack, legacyLoadedMap, ri>>
  /\ UNCHANGED <<loadVars, helperVars, storeVars, logVars>>

\* legacyLoad, lines 297-316: one repositories entry is resolved through
\* the map and bound; after the last one legacyLoad returns nil.
LlTag ==
  /\ pc = "llTag"
  /\ IF ri > Len(repositories)
       THEN /\ Return("nil") /\ UNCHANGED <<ri, rs, bindLog, out, repositories>>
       ELSE \E e \in RepoEntriesAt(repositories, ri) :
            /\ repositories' = [repositories EXCEPT ![ri] = e]
            /\ IF legacyLoadedMap[e.oldID] = None
                 THEN /\ Return("invalidTarget") /\ UNCHANGED <<ri, rs, bindLog, out>>
               ELSE IF ~WithNameOK(e.name)
                 THEN /\ Return("nameErr") /\ UNCHANGED <<ri, rs, bindLog, out>>
               ELSE IF ~WithTagOK(e.tag)
                 THEN /\ Return("tagErr") /\ UNCHANGED <<ri, rs, bindLog, out>>
               ELSE \E addOK \in BOOLEAN :
                      /\ SetLoadedTag(e.oldID, WithTag(e.name, e.tag), legacyLoadedMap[e.oldID], addOK)
                      /\ ri' = ri + 1
                      /\ UNCHANGED <<pc, err>>
  /\ UNCHANGED <<entries, di, reposFile, parentOf, stack, legacyLoadedMap>>
  /\ UNCHANGED <<loadVars, helperVars, ls, is, isParent, rs0, lsCalls, isCalls, opens>>

\* ------------------------------------------------------------------ Spec
Next ==
  \/ LoadStart
  \/ LoadManifest
  \/ OciLoadStart
  \/ OciEntry
  \/ LhItem
  \/ LhLayer
  \/ LhCreate
  \/ LhTag
  \/ LhDefer
  \/ LegacyLoadStart
  \/ LlDir
  \/ LliEntry
  \/ LliParent
  \/ LliLayer
  \/ LliConfig
  \/ LliRelease
  \/ LliFinish
  \/ LlRepos
  \/ LlTag

Spec == Init /\ [][Next]_vars

\* The import runs on one goroutine that is never suspended for good: while
\* a step of it is possible, a step is eventually taken.
FairSpec == Spec /\ WF_vars(Next)

\* ------------------------------------------------------------ properties
LsIdx == 1..Len(lsCalls)
IsIdx == 1..Len(isCalls)
BindIdx == 1..Len(bindLog)
\* The calls that returned a layer handle, and the releases of handle h.
Acquired == {k \in LsIdx : lsCalls[k].op \in {"Get", "Register"} /\ lsCalls[k].ok}
Releases(h) == Cardinality({k \in LsIdx : lsCalls[k].op = "Release" /\ lsCalls[k].h = h})
InLoadHelper == adapters \in {<<"oci">>, <<"manifest">>}
InLegacy == adapters = <<"legacy">>
Failed == err \notin {"nil", "running"}
StoresUntouched ==
  ls = PreLayers /\ is = {PreImage} /\ isParent = {} /\ rs = rs0 /\ lsCalls = << >> /\ isCalls = << >>

\* C1: in loadHelper no layer handle is released twice, and when loadHelper
\* has returned (with nil or with any error) every handle it got from Get or
\* Register has been released exactly once.
C1_HandlesReleasedOnce ==
  InLoadHelper =>
    /\ \A k \in Acquired : Releases(k) <= 1
    /\ pc = "done" => \A k \in Acquired : Releases(k) = 1

\* C1 witness: loadHelper returned an error after it had got one handle
\* from Get and one from Register.
C1_Witness ==
  /\ InLoadHelper /\ pc = "done" /\ err = "createErr"
  /\ \E j, k \in Acquired : lsCalls[j].op = "Get" /\ lsCalls[k].op = "Register"

\* C2: when a legacy import has returned, every layer handle legacyLoadImage
\* got from Register has been released exactly once.
C2_LegacyHandleReleased ==
  (InLegacy /\ pc = "done") => \A k \in Acquired : Releases(k) = 1

\* C3: once a layer handle of manifest item i has a DiffID other than the
\* declared one, loadHelper is returning an error, Create is never called
\* for item i or a later one, and no reference is bound for them.
C3_DiffIDMismatchAborts ==
  InLoadHelper =>
    \A k \in Acquired :
      lsCalls[k].diffID # Last(lsCalls[k].cand) =>
        /\ pc \in {"lhDefer", "done"} /\ Failed
        /\ \A c \in IsIdx : ~(isCalls[c].op = "Create" /\ isCalls[c].who >= lsCalls[k].who)
        /\ \A b \in BindIdx : bindLog[b].who < lsCalls[k].who

\* C3 witness: the second item's layer has a wrong DiffID, after the first
\* item was created and bound.
C3_Witness ==
  /\ InLoadHelper /\ pc = "done"
  /\ \E k \in Acquired : lsCalls[k].diffID # Last(lsCalls[k].cand) /\ lsCalls[k].who = 2
  /\ \E b \in BindIdx : bindLog[b].who = 1

\* C4: while the current item's layer count differs from its config's
\* DiffID count, loadHelper is returning an error and has called neither
\* Get, Register nor Create for that item.
C4_LayerCountMismatchAborts ==
  (InLoadHelper /\ config # None /\ mi <= Len(manifests)
     /\ Len(manifests[mi].Layers) # Len(config.DiffIDs)) =>
    /\ pc \in {"lhDefer", "done"} /\ Failed
    /\ \A k \in LsIdx : ~(lsCalls[k].op \in {"Get", "Register"} /\ lsCalls[k].who = mi)
    /\ \A c \in IsIdx : ~(isCalls[c].op = "Create" /\ isCalls[c].who = mi)

\* C4 witness: an item with more layers than declared DiffIDs, and the
\* declared ones not empty, was rejected.
C4_Witness ==
  /\ InLoadHelper /\ pc = "done" /\ config # None /\ mi <= Len(manifests)
  /\ Len(manifests[mi].Layers) > Len(config.DiffIDs) /\ Len(config.DiffIDs) > 0

\* C5: within one loadHelper call Register is called at most once per
\* candidate ChainID, only right after a Get of that ChainID that failed,
\* and every Get of a ChainID registered earlier in the call succeeds.
C5_RegisterOncePerChainID ==
  InLoadHelper =>
    /\ \A i, j \in LsIdx :
         (i < j /\ lsCalls[i].op = "Register" /\ lsCalls[j].op = "Register")
           => lsCalls[i].cand # lsCalls[j].cand
    /\ \A j \in LsIdx : lsCalls[j].op = "Register" =>
         /\ j > 1 /\ lsCalls[j - 1].op = "Get" /\ ~lsCalls[j - 1].ok
         /\ lsCalls[j - 1].arg = lsCalls[j].cand
    /\ \A i, j \in LsIdx :
         (i < j /\ lsCalls[i].op = "Register" /\ lsCalls[i].ok
            /\ lsCalls[j].op = "Get" /\ lsCalls[j].arg = lsCalls[i].chain)
           => lsCalls[j].ok

\* C5 witness: the first item registered a layer and the second item got
\* the same ChainID by Get.
C5_Witness ==
  /\ InLoadHelper
  /\ \E i, j \in LsIdx :
       /\ i < j /\ lsCalls[i].op = "Register" /\ lsCalls[i].ok /\ lsCalls[i].who = 1
       /\ lsCalls[j].op = "Get" /\ lsCalls[j].ok /\ lsCalls[j].who = 2
       /\ lsCalls[j].arg = lsCalls[i].chain

C7_ReadFailureIsFatal ==
  (ociLayoutFile = "ioerr" \/ manifestFile = "ioerr") =>
    /\ adapters = << >>
    /\ StoresUntouched
    /\ pc = "done" => Failed

\* Calls of legacyLoadImage for old ID o that reached Register / Create.
RegisterCalls(o) == {k \in LsIdx : lsCalls[k].op = "Register" /\ lsCalls[k].who = o}
CreateCalls(o) == {c \in IsIdx : isCalls[c].op = "Create" /\ isCalls[c].who = o}

\* C8: in a legacy import every old ID is registered and created at most
\* once, and for every loaded image with a parent P: P is loaded, P's layer
\* was registered exactly once and P's image created exactly once, and
\* SetParent was called with the child's and P's new image IDs.
C8_SharedParentLoadedOnce ==
  InLegacy =>
    \A o \in ParentIDs \ {NoParent} :
      /\ Cardinality(RegisterCalls(o)) <= 1
      /\ Cardinality(CreateCalls(o)) <= 1
      /\ (legacyLoadedMap[o] # None /\ parentOf[o] # NoParent) =>
           LET P == parentOf[o] IN
           /\ legacyLoadedMap[P] # None
           /\ Cardinality(RegisterCalls(P)) = 1
           /\ Cardinality(CreateCalls(P)) = 1
           /\ \E c \in IsIdx :
                /\ isCalls[c].op = "SetParent" /\ isCalls[c].ok
                /\ isCalls[c].id = legacyLoadedMap[o]
                /\ isCalls[c].parent = legacyLoadedMap[P]
           /\ <<legacyLoadedMap[o], legacyLoadedMap[P]>> \in isParent

\* C8 witness: directories 1 and 3 both name directory 2 as parent (so the
\* parent is visited after one child and before the other), and all three
\* are loaded.
C8_Witness ==
  /\ InLegacy /\ pc = "llRepos"
  /\ parentOf[1] = 2 /\ parentOf[3] = 2 /\ parentOf[2] = NoParent
  /\ \A o \in {1, 2, 3} : legacyLoadedMap[o] # None

\* C9: a legacy import whose directories all loaded and whose tree has no
\* repositories file returns nil and binds no reference.
C9_AbsentRepositoriesIsSuccess ==
  (InLegacy /\ pc = "done" /\ reposFile = "absent" /\ di > Len(entries)
     /\ \E o \in OldIDs : legacyLoadedMap[o] # None) =>
    /\ err = "nil"
    /\ bindLog = << >>

\* The binding of ref before the k-th setLoadedTag call: the ID of the last
\* successful AddTag of ref before it, or what the store held at entry.
BoundBefore(ref, k) ==
  LET earlier == {j \in 1..(k - 1) : bindLog[j].ref = ref /\ bindLog[j].ok} IN
  IF earlier = {} THEN rs0[ref]
  ELSE bindLog[CHOOSE j \in earlier : \A i \in earlier : i <= j].id

RECURSIVE ExpectedNotices(_)
ExpectedNotices(k) ==
  IF k = 0 THEN << >>
  ELSE ExpectedNotices(k - 1)
         \o (IF BoundBefore(bindLog[k].ref, k) \notin {None, bindLog[k].id}
               THEN <<[kind |-> "notice", ref |-> bindLog[k].ref,
                       id |-> BoundBefore(bindLog[k].ref, k)]>>
               ELSE << >>)

IsNotice(line) == line.kind = "notice"

\* C10: the reference store maps every reference to the image ID of the
\* last successful binding (or to what it held at entry), and the notices
\* on the output are exactly one per setLoadedTag call that found the
\* reference bound to another image ID, naming that ID.
C10_LastWriteWins ==
  /\ \A ref \in Refs : rs[ref] = BoundBefore(ref, Len(bindLog) + 1)
  /\ SelectSeq(out, IsNotice) = ExpectedNotices(Len(bindLog))

\* C10 witness: one import bound the same reference to image a and then to
\* another image b; the store holds b and the notice names a.
C10_Witness ==
  \E j, k \in BindIdx :
    /\ j < k /\ k = Len(bindLog)
    /\ bindLog[j].ref = bindLog[k].ref /\ bindLog[j].ok /\ bindLog[k].ok
    /\ bindLog[j].id # bindLog[k].id
    /\ rs[bindLog[k].ref] = bindLog[k].id
    /\ \E n \in 1..Len(out) :
         out[n] = [kind |-> "notice", ref |-> bindLog[k].ref, id |-> bindLog[j].id]

IsLoadedLine(line) == line.kind = "loaded"

\* C11: when AddTag fails for a reference, that setLoadedTag call is the
\* last one, the import is returning an error, and no "has been loaded"
\* line is written for it: every such line names a reference and image ID
\* of a binding AddTag accepted.
C11_AddTagFailureAborts ==
  /\ \A b \in BindIdx :
       ~bindLog[b].ok => (b = Len(bindLog) /\ pc \in {"lhDefer", "done"} /\ Failed)
  /\ \A n \in 1..Len(out) :
       IsLoadedLine(out[n]) =>
         \E b \in BindIdx :
           bindLog[b].ok /\ bindLog[b].ref = out[n].ref /\ bindLog[b].id = out[n].id

\* C12: every os.Open / ioutil.ReadFile of a file of the extracted tree is
\* given a path that came from safePath.
C12_EveryOpenGuarded == \A f \in opens : f.guarded

UsageErrors == {"eitherNameAndRefs", "noNameMapping"}

\* C13: once ociLoad has checked its arguments, it has returned a usage
\* error iff both a name and a non-empty reference map were given or
\* neither was; and then index.json was not opened and no store was touched.
C13_OciUsageError ==
  (adapters = <<"oci">> /\ pc # "ociLoad") =>
    /\ (name # "" /\ refs # {}) <=> err = "eitherNameAndRefs"
    /\ (name = "" /\ refs = {}) <=> err = "noNameMapping"
    /\ err \in UsageErrors =>
         /\ pc = "done"
         /\ index = << >> /\ manifests = << >>
         /\ \A f \in opens : f.file \notin {"index.json", "manifest blob", "config", "layer"}
         /\ StoresUntouched /\ bindLog = << >>

\* C13 witness: ociLoad was called with a name and a reference map.
C13_Witness ==
  /\ adapters = <<"oci">> /\ pc = "done"
  /\ name # "" /\ refs # {} /\ err = "eitherNameAndRefs"

IsImageManifest(md) == md.MediaType = "manifest"
\* The index entries ociLoad has gone through that are image manifests.
ProcessedManifests == SelectSeq(SubSeq(index, 1, xi - 1), IsImageManifest)
HasRefName(md) == md.RefName # "none"
IsMapped(md) == \E p \in refs : p[1] = md.RefName
ExpectedRepoTag(md) ==
  IF name # "" THEN <<name, md.RefName>> ELSE (CHOOSE p \in refs : p[1] = md.RefName)[2]
LhPcs == {"lhItem", "lhLayer", "lhCreate", "lhTag", "lhDefer"}

\* C14: in the OCI adapter the manifest items are, in index order, one per
\* image-manifest entry gone through and none for other entries, each with
\* the single repo tag name:annotation (a name given) or the reference map's
\* value for the annotation; and loadHelper starts, a store is touched or a
\* reference bound only when the whole index was gone through and every
\* image-manifest entry of it has the annotation and, with a reference map,
\* an entry in the map.
C14_OciManifestItems ==
  adapters = <<"oci">> =>
    /\ Len(manifests) = Len(ProcessedManifests)
    /\ \A k \in 1..Len(manifests) :
         /\ HasRefName(ProcessedManifests[k])
         /\ name = "" => IsMapped(ProcessedManifests[k])
         /\ manifests[k].RepoTags = <<ExpectedRepoTag(ProcessedManifests[k])>>
    /\ (pc \in LhPcs \/ ~StoresUntouched \/ bindLog # << >>) =>
         /\ xi = Len(index) + 1
         /\ \A k \in 1..Len(index) :
              IsImageManifest(index[k]) =>
                (HasRefName(index[k]) /\ (name = "" => IsMapped(index[k])))
    /\ (pc = "done" /\ xi <= Len(index)) => (Failed /\ StoresUntouched /\ bindLog = << >>)

\* C14 witness: an index of another entry and an image manifest gave one
\* item, which was loaded and bound.
C14_Witness ==
  /\ adapters = <<"oci">> /\ pc = "done" /\ err = "nil"
  /\ Len(index) = 2 /\ ~IsImageManifest(index[1]) /\ IsImageManifest(index[2])
  /\ Len(manifests) = 1 /\ bindLog # << >>

IsLookup(call) == call.op \in {"Get", "Register"}
GetsBefore(j) == {i \in 1..(j - 1) : lsCalls[i].op = "Get" /\ lsCalls[i].who = lsCalls[j].who}
BindsOf(k) == {b \in BindIdx : bindLog[b].who = k}

\* C15: loadHelper stops at the first error: once it returns an error it
\* is only running its deferred releases, and a store call that failed
\* (a Register, a Create, an AddTag) is the last call made for any item;
\* its store calls are in item order and, within an item, its layer lookups
\* in stack order; no call is made for an item after the current one; and
\* every earlier item stays committed: it was created once, its image is in
\* the image store, all its repo tags were handed to the reference store,
\* and every reference holds the last binding accepted for it, also after a
\* later item failed.
C15_StopsAtFirstError ==
  InLoadHelper =>
    /\ Failed => pc \in {"lhDefer", "done"}
    /\ \A j \in LsIdx : (lsCalls[j].op = "Register" /\ ~lsCalls[j].ok) =>
         (Failed /\ \A i \in LsIdx : (i > j => ~IsLookup(lsCalls[i])))
    /\ \A c \in IsIdx : ~isCalls[c].ok => (Failed /\ c = Len(isCalls))
    /\ \A b \in BindIdx : ~bindLog[b].ok =>
         /\ b = Len(bindLog)
         /\ \A j \in LsIdx : IsLookup(lsCalls[j]) => lsCalls[j].who <= bindLog[b].who
         /\ \A c \in IsIdx : isCalls[c].who <= bindLog[b].who
    /\ \A i, j \in LsIdx :
         (i < j /\ IsLookup(lsCalls[i]) /\ IsLookup(lsCalls[j])) => lsCalls[i].who <= lsCalls[j].who
    /\ \A j \in LsIdx :
         lsCalls[j].op = "Get" => Len(lsCalls[j].cand) = 1 + Cardinality(GetsBefore(j))
    /\ \A i, j \in IsIdx : i < j => isCalls[i].who < isCalls[j].who
    /\ \A i, j \in BindIdx : i < j => bindLog[i].who <= bindLog[j].who
    /\ \A j \in LsIdx : IsLookup(lsCalls[j]) => lsCalls[j].who <= mi
    /\ \A c \in IsIdx : isCalls[c].who <= mi
    /\ \A b \in BindIdx : bindLog[b].who <= mi
    /\ \A k \in 1..(mi - 1) :
         /\ \E c \in IsIdx : isCalls[c].op = "Create" /\ isCalls[c].who = k /\ isCalls[c].ok
         /\ Cardinality(BindsOf(k)) = Len(manifests[k].RepoTags)
    /\ \A c \in IsIdx : isCalls[c].ok => isCalls[c].id \in is
    /\ \A b \in BindIdx : bindLog[b].ok => rs[bindLog[b].ref] = BoundBefore(bindLog[b].ref, Len(bindLog) + 1)

\* C16: while loadHelper is processing a manifest item, every layer handle
\* acquired for an earlier item has been released.
C16_ReleasedBeforeNextItem ==
  (InLoadHelper /\ mi <= Len(manifests) /\ pc \in {"lhItem", "lhLayer", "lhCreate", "lhTag"}) =>
    \A k \in Acquired : lsCalls[k].who < mi => Releases(k) = 1

\* C17: in loadHelper every Register is called with the ChainID of the
\* candidate rootfs without its last DiffID (for the current item: of the
\* declared DiffIDs below the layer; the empty rootfs for the base layer),
\* never with the candidate ChainID; the layer it returns lies on that
\* parent; and the rootfs carried to layer i+1 is the first i+1 declared
\* DiffIDs.
C17_RegisterOnParentChain ==
  InLoadHelper =>
    /\ \A j \in LsIdx : lsCalls[j].op = "Register" =>
         /\ lsCalls[j].cand # << >>
         /\ lsCalls[j].arg = ChainID(Front(lsCalls[j].cand))
         /\ lsCalls[j].arg # lsCalls[j].cand
         /\ lsCalls[j].ok => Front(lsCalls[j].chain) = lsCalls[j].arg
         /\ (config # None /\ lsCalls[j].who = mi) =>
              lsCalls[j].arg = ChainID(SubSeq(config.DiffIDs, 1, Len(lsCalls[j].cand) - 1))
    /\ (config # None /\ ~LayersLengthMismatch(Len(manifests[mi].Layers), Len(config.DiffIDs))) =>
         /\ li <= Len(config.DiffIDs) + 1
         /\ rootFS = SubSeq(config.DiffIDs, 1, li - 1)

\* C17 witness: the second layer of an item was registered on the ChainID
\* of the first, and the rootfs then carried is both declared DiffIDs.
C17_Witness ==
  /\ InLoadHelper /\ config # None /\ li = 3 /\ Len(rootFS) = 2
  /\ \E j \in LsIdx :
       /\ lsCalls[j].op = "Register" /\ lsCalls[j].ok /\ lsCalls[j].who = mi
       /\ Len(lsCalls[j].arg) = 1 /\ Len(lsCalls[j].cand) = 2

\* The errors loadLayer can return, with and without a progress output.
LoadLayerErrors(progress) == {r.err : r \in LoadLayerResults(progress, ls, << >>)}

\* C18: an import never ends with an error of loadLayer that loadLayer
\* could not also have returned without a progress output.
C18_ProgressIsObservational ==
  (pc = "done" /\ err \in LoadLayerErrors(ProgressOutput)) => err \in LoadLayerErrors(FALSE)

\* The n-th ancestor of old ID o by the Parent fields read so far.
RECURSIVE AncestorAt(_, _)
AncestorAt(o, n) ==
  IF n = 0 THEN o
  ELSE LET a == AncestorAt(o, n - 1) IN
       IF parentOf[a] = Unread THEN NoParent ELSE parentOf[a]
\* The Parent fields read so far hold a cycle (a self-parent included).
HasCycle == \E o \in OldIDs, n \in 1..MaxDirs : AncestorAt(o, n) = o
CreateIdx(o) == CHOOSE c \in IsIdx : isCalls[c].op = "Create" /\ isCalls[c].who = o

\* C19: a legacy import terminates, and unless the Parent fields form a
\* cycle it does so without exhausting the stack; when legacyLoadImage is
\* at its parent lookup and the parent is not in the map, no load of the
\* parent has got as far as registering its layer (a call that returned nil
\* has entered its old ID in the map, so the lookup after it succeeds); and
\* the image of every loaded parent was created before its child's.
C19_LegacyTerminates ==
  /\ [](InLegacy =>
          /\ err = "stackOverflow" => HasCycle
          /\ (pc = "lliParent" /\ Top.Parent # NoParent
                /\ ~ParentLoaded(legacyLoadedMap, Top.Parent)) =>
               (RegisterCalls(Top.Parent) = {} /\ CreateCalls(Top.Parent) = {})
          /\ \A o \in OldIDs :
               (legacyLoadedMap[o] # None /\ parentOf[o] # NoParent) =>
                 /\ CreateCalls(parentOf[o]) # {} /\ CreateCalls(o) # {}
                 /\ CreateIdx(parentOf[o]) < CreateIdx(o))
  /\ (InLegacy ~> pc = "done")

\* C19 witness: a chain of three directories, each the parent of the one
\* before, was loaded from the youngest, by two nested recursive calls.
C19_Witness ==
  /\ InLegacy /\ pc = "done" /\ err = "nil"
  /\ parentOf[1] = 2 /\ parentOf[2] = 3 /\ parentOf[3] = NoParent
  /\ \A o \in {1, 2, 3} : legacyLoadedMap[o] # None
  /\ CreateIdx(3) < CreateIdx(2) /\ CreateIdx(2) < CreateIdx(1)

\* The load of old ID o is complete: its layer was registered and the
\* handle released, its image was created under the ID the map holds, and
\* no store call made for it failed.
LoadComplete(o) ==
  /\ \E k \in RegisterCalls(o) :
       /\ lsCalls[k].ok
       /\ \E r \in LsIdx : lsCalls[r].op = "Release" /\ lsCalls[r].h = k /\ lsCalls[r].ok
  /\ \E c \in CreateCalls(o) : isCalls[c].ok /\ isCalls[c].id = legacyLoadedMap[o]
  /\ legacyLoadedMap[o] \in is
  /\ \A k \in LsIdx : lsCalls[k].who = o => lsCalls[k].ok
  /\ \A c \in IsIdx : isCalls[c].who = o => isCalls[c].ok

\* The parent of o is in the map and o's image is linked to the parent's.
ParentLinked(o) ==
  LET P == parentOf[o] IN
  /\ legacyLoadedMap[P] # None
  /\ \E c \in IsIdx :
       /\ isCalls[c].op = "SetParent" /\ isCalls[c].who = o /\ isCalls[c].ok
       /\ isCalls[c].id = legacyLoadedMap[o] /\ isCalls[c].parent = legacyLoadedMap[P]

\* C20: in a legacy import an old ID is in the load map only if it is a
\* directory whose load is complete and, when its json names a parent, the
\* parent is in the map too and SetParent succeeded; the old IDs of the
\* calls an error is returning through are not in the map; and an entry of
\* the map is never changed or removed.
C20_LoadMapConsistent ==
  /\ [](InLegacy =>
          /\ \A o \in ParentIDs :
               legacyLoadedMap[o] # None =>
                 /\ o \in DirNames
                 /\ LoadComplete(o)
                 /\ parentOf[o] # NoParent => ParentLinked(o)
          /\ (pc = "done" /\ Failed) =>
               \A f \in 1..Len(stack) : legacyLoadedMap[stack[f].oldID] = None)
  /\ [][\A o \in ParentIDs :
          legacyLoadedMap[o] # None => legacyLoadedMap'[o] = legacyLoadedMap[o]]_vars

\* C20 witness: directory 2 with parent 1 is in the map with its parent,
\* and the load of directory 3 failed at Create and left no entry.
C20_Witness ==
  /\ InLegacy /\ pc = "done" /\ err = "createErr"
  /\ parentOf[2] = 1 /\ legacyLoadedMap[1] # None /\ legacyLoadedMap[2] # None
  /\ <<legacyLoadedMap[2], legacyLoadedMap[1]>> \in isParent
  /\ Len(stack) = 1 /\ stack[1].oldID = 3 /\ legacyLoadedMap[3] = None

====
